---- MODULE Spec2Model ----
(***************************************************************************)
(* Lumina realtime voice session: the LuminaSession class (connect,        *)
(* startAudioInput, handleMessage, playAudio, disconnect) and the          *)
(* LuminaLive controller (toggleSession, unmount cleanup), as a state      *)
(* machine over the browser's single cooperative event loop.               *)
(*                                                                         *)
(* One action is one task of the event loop together with the microtasks   *)
(* it leaves behind, except where the code suspends on something the       *)
(* environment settles later (getUserMedia, the session promise) or where  *)
(* the audio clock, which the rendering thread advances, can move between   *)
(* the two halves of a handler (playAudio's await).                        *)
(***************************************************************************)
EXTENDS Integers, Sequences, FiniteSets, TLC

\* ---------------------------------------------------------------- bounds
MaxSessions == 2    \* LuminaSession objects the controller constructs
MaxMsgs == 3        \* inbound channel messages of a run
MaxTicks == 2       \* ticks of the output clocks in a run
MaxPackets == 2     \* capture callbacks of a run
MaxWaiting == 2     \* disconnect() calls suspended on one session promise
MaxFrames == 1      \* length of one decoded audio buffer, in clock ticks
MaxCalls == 2       \* tool invocations carried by one message
MaxBlock == 2       \* samples of one capture block
Spread == 3         \* sample values tried on each side of a reference value
Finer == 2          \* sample values per step of the int16 grid

\* ------------------------------------------------------------- constants
Scale == 32768      \* int16[i] = data[i] * 32768, dataInt16[i] / 32768.0
ByteSpan == 256     \* values of one element of a Uint8Array
Pad == 64           \* the 65th symbol of btoa's alphabet, '='

VARIABLES
  sess,        \* the LuminaSession objects constructed so far, in order
  isActive,    \* LuminaLive: useState(false)
  sessionRef,  \* LuminaLive: sessionRef.current (0 is null)
  mounted,     \* LuminaLive is mounted
  micro,       \* microtask queue: the playAudio call suspended at its await
  load,        \* what the environment feeds this run (fixed by Init)
  pcm          \* one capture block on its way through createBlob and decodeAudioData

vars == <<sess, isActive, sessionRef, mounted, micro, load, pcm>>

Sessions == 1..Len(sess)

\* ------------------------------------------------------------ pure helpers
Max(a, b) == IF a >= b THEN a ELSE b

RECURSIVE SumOver(_, _)
SumOver(f, n) == IF n = 0 THEN 0 ELSE f[n] + SumOver(f, n - 1)

\* The inputs the environment has fed the program so far.
MsgCount == SumOver([s \in Sessions |-> sess[s].nmsg], Len(sess))
TickCount == SumOver([s \in Sessions |-> sess[s].clock], Len(sess))
PacketCount == SumOver([s \in Sessions |-> sess[s].npkt], Len(sess))

\* The runs explored: each bounds what the user and the remote endpoint do.
Workloads ==
  { [name |-> "sessions", sessions |-> MaxSessions, msgs |-> 0, calls |-> 0,
     ticks |-> 0, pkts |-> 0, waiting |-> MaxWaiting,
     faults |-> FALSE],
    [name |-> "playback", sessions |-> 1, msgs |-> MaxMsgs, calls |-> 0,
     ticks |-> MaxTicks, pkts |-> 0, waiting |-> 1, faults |-> FALSE],
    [name |-> "tools", sessions |-> 1, msgs |-> 1, calls |-> MaxCalls,
     ticks |-> 0, pkts |-> 0, waiting |-> 1, faults |-> TRUE],
    [name |-> "capture", sessions |-> 1, msgs |-> 0, calls |-> 0,
     ticks |-> 0, pkts |-> MaxPackets, waiting |-> 1, faults |-> TRUE] }

\* Whether the channel's send calls throw during one task: the environment's choice.
Faults == IF load.faults THEN BOOLEAN ELSE {FALSE}

\* The field initialisers and the constructor.
NewSession ==
  [ cpc            |-> "new",     \* connect(): new, gum, returned, threw
    session        |-> "unset",   \* this.session: unset, pending, resolved, rejected
    inputContext   |-> "null",    \* null, running, closed
    outputContext  |-> "null",
    inputProcessor |-> "null",    \* null, connected, disconnected
    source         |-> "null",
    stream         |-> "null",    \* null, live, stopped
    nextStartTime  |-> 0,
    sources        |-> {},        \* indices into units
    \* the environment the object talks to
    chan           |-> "none",    \* none, opening, open, errored, closed
    opened         |-> FALSE,     \* the channel's open event has fired
    clock          |-> 0,         \* outputContext.currentTime
    units          |-> <<>>,      \* every AudioBufferSourceNode start()ed
    reactions      |-> <<>>,      \* reactions registered on the pending session promise
    sendThrows     |-> FALSE,     \* the channel's send calls throw in the running task
    \* what the object did, as its collaborators saw it
    reports        |-> <<>>,      \* onStatusChange calls
    received       |-> <<>>,      \* tool invocations received
    screen         |-> <<>>,      \* onScreenUpdate calls (invocation ids)
    outbox         |-> <<>>,      \* sendToolResponse / sendRealtimeInput calls
    nmsg           |-> 0,
    naudio         |-> 0,         \* inbound messages that carried an audio payload
    npkt           |-> 0,
    nconnect       |-> 0,         \* connect() calls
    ngum           |-> 0,         \* getUserMedia calls
    nopen          |-> 0,         \* live.connect calls
    ndisc          |-> 0,         \* disconnect() calls that ran to their end
    steps          |-> <<>>,      \* what the last disconnect() released, in order
    ndeferred      |-> 0,         \* sends that waited for the session promise
    cancelled      |-> "no",      \* disconnect() was called while connect() was
                                  \* "acquiring" the device or "opening" the channel
    dthrew         |-> FALSE ]    \* a disconnect() call ended in a rejection

\* onStatusChange is (s) => setStatus(s): the session's report, as the session sees it.
Report(r, st) == [r EXCEPT !.reports = Append(@, st)]

\* ---------------------------------------------------------------- connect
\* connect() up to its first await: report, create both contexts, call getUserMedia.
ConnectBegin(r) ==
  [Report(r, "Connecting...") EXCEPT
     !.inputContext = "running", !.outputContext = "running", !.cpc = "gum",
     !.nconnect = @ + 1, !.ngum = @ + 1]

\* Mutant of ConnectAcquired: reports 'Connected' as soon as live.connect was called.
ConnectAcquiredEager(r) ==
  Report([r EXCEPT !.stream = "live", !.chan = "opening", !.session = "pending",
                   !.cpc = "returned", !.nopen = @ + 1], "Connected")

\* connect() after getUserMedia resolved: keep the stream, open the channel, store the promise.
ConnectAcquired(r) ==
  [r EXCEPT !.stream = "live", !.chan = "opening", !.session = "pending",
            !.cpc = "returned", !.nopen = @ + 1]

\* startAudioInput: build the capture graph and install onaudioprocess.
StartAudioInput(r) ==
  IF r.inputContext = "null" \/ r.stream = "null" THEN r
  ELSE [r EXCEPT !.source = "connected", !.inputProcessor = "connected"]

\* The onopen callback.
OnOpen(r) == StartAudioInput(Report(r, "Connected"))

\* Mutant of OnClose: the close event is not reported.
OnCloseSilent(r) == r

\* The onclose callback.
OnClose(r) == Report(r, "Disconnected")

\* Mutant of OnError: the error is reported and the channel is opened again.
OnErrorRetry(r) == [Report(r, "Error") EXCEPT !.nopen = @ + 1]

\* The onerror callback.
OnError(r) == Report(r, "Error")

\* ------------------------------------------------------------- disconnect
\* for (const source of this.sources) source.stop()
StopAll(units, sources) ==
  [i \in DOMAIN units |->
     IF i \in sources THEN [units[i] EXCEPT !.st = "stopped"] ELSE units[i]]

\* Mutant of ClearSources: the set is not cleared.
ClearNothing(sources) == sources

\* this.sources.clear()
ClearSources(sources) == {}

\* A field the code reaches through ?. : untouched while null.
IfSet(v, w) == IF v = "null" THEN v ELSE w

\* A release step that had something to release is noted.
Step(r, name, acted) == IF acted THEN [r EXCEPT !.steps = Append(@, name)] ELSE r

\* this.source?.disconnect(); this.inputProcessor?.disconnect()
DisconnectGraph(r) ==
  Step([r EXCEPT !.source = IfSet(@, "disconnected"),
                 !.inputProcessor = IfSet(@, "disconnected")],
       "graph", r.source # "null" \/ r.inputProcessor # "null")

\* this.stream?.getTracks().forEach(t => t.stop())
StopTracks(r) ==
  Step([r EXCEPT !.stream = IfSet(@, "stopped")], "tracks", r.stream # "null")

\* this.inputContext?.close(); this.outputContext?.close()
CloseContexts(r) ==
  Step([r EXCEPT !.inputContext = IfSet(@, "closed"),
                 !.outputContext = IfSet(@, "closed")],
       "contexts", r.inputContext # "null" \/ r.outputContext # "null")

\* The loop over this.sources, then clear().
StopUnits(r) ==
  Step([r EXCEPT !.units = StopAll(r.units, r.sources),
                 !.sources = ClearSources(r.sources)],
       "units", r.sources # {})

\* disconnect() after its await: the release steps in the order of the code.
Teardown(r) ==
  StopUnits(CloseContexts(StopTracks(DisconnectGraph([r EXCEPT !.steps = <<>>]))))

DisconnectFinish(r) ==
  [Report(Teardown(r), "Disconnected") EXCEPT !.ndisc = @ + 1]

\* How a disconnect() call that starts now proceeds: `if (this.session) await this.session`.
DisconnectOutcome(r) ==
  CASE r.session = "unset"    -> "completes"
    [] r.session = "resolved" -> "completes"
    [] r.session = "pending"  -> "suspends"
    [] r.session = "rejected" -> "throws"

\* The operation connect() is waiting for, if any.
ConnectInFlight(r) ==
  CASE r.cpc = "gum" -> "acquiring"
    [] r.session = "pending" /\ ~r.opened -> "opening"
    [] OTHER -> "no"

Waiting(r) == Cardinality({i \in DOMAIN r.reactions : r.reactions[i].kind = "disconnect"})

\* A disconnect() call by `caller`, up to where it completes, suspends or throws.
DisconnectCall(r, caller) ==
  LET c == [r EXCEPT !.cancelled = IF @ = "no" THEN ConnectInFlight(r) ELSE @] IN
  CASE DisconnectOutcome(r) = "completes" -> DisconnectFinish(c)
    [] DisconnectOutcome(r) = "suspends" ->
         [c EXCEPT !.reactions =
            Append(@, [kind |-> "disconnect", caller |-> caller, item |-> 0])]
    [] DisconnectOutcome(r) = "throws" -> [c EXCEPT !.dthrew = TRUE]

\* ------------------------------------------------ the session promise's reactions
\* A call of session.sendToolResponse or session.sendRealtimeInput.
\* The call is recorded with its outcome and with the number of disconnect()
\* calls that had completed when it was made; an exception it throws ends the
\* then() callback it was made in and rejects a promise nobody holds.
Sent(r, item) ==
  [kind |-> item.kind, id |-> item.id, name |-> item.name, threw |-> r.sendThrows,
   ndisc |-> r.ndisc]

\* Mutant of Send: a send that threw is made again.
SendRetrying(r, item) ==
  [r EXCEPT !.outbox = IF r.sendThrows THEN @ \o <<Sent(r, item), Sent(r, item)>>
                       ELSE Append(@, Sent(r, item))]

Send(r, item) == [r EXCEPT !.outbox = Append(@, Sent(r, item))]

\* A task of session r in which the channel's send calls throw, or do not.
TaskBegin(r, f) == [r EXCEPT !.sendThrows = f]

TaskEnd(r) == [r EXCEPT !.sendThrows = FALSE]

\* Mutant of ThenSend: the send does not wait for the session promise.
ThenSendEarly(r, item) == Send(r, item)

\* sessionPromise.then((session) => session.send...(item))
ThenSend(r, item) ==
  CASE r.session = "resolved" -> Send(r, item)
    [] r.session = "pending" ->
         [r EXCEPT !.reactions =
            Append(@, [kind |-> "send", caller |-> "session", item |-> item])]
    [] OTHER -> r

\* A then() callback that was registered while the promise was pending runs.
SendDeferred(r, item) == [Send(r, item) EXCEPT !.ndeferred = @ + 1]

\* Mutant of RunReactions: the reactions run last registered first.
RECURSIVE RunReactionsLifo(_, _)
RunReactionsLifo(r, q) ==
  IF q = <<>> THEN r
  ELSE LET x == q[Len(q)] IN
       RunReactionsLifo(IF x.kind = "disconnect" THEN DisconnectFinish(r)
                        ELSE SendDeferred(r, x.item),
                        SubSeq(q, 1, Len(q) - 1))

\* The promise resolves: its reactions run in the order they were registered.
RECURSIVE RunReactions(_, _)
RunReactions(r, q) ==
  IF q = <<>> THEN r
  ELSE RunReactions(IF Head(q).kind = "disconnect" THEN DisconnectFinish(r)
                    ELSE SendDeferred(r, Head(q).item),
                    Tail(q))

\* The promise rejects: an awaiting disconnect() throws, a then() without a
\* rejection handler never runs its callback.
RejectReactions(r) ==
  [r EXCEPT !.session = "rejected", !.reactions = <<>>,
            !.dthrew = @ \/ Waiting(r) > 0]

HasReaction(r, kind, caller) ==
  \E i \in DOMAIN r.reactions :
     r.reactions[i].kind = kind /\ r.reactions[i].caller = caller

\* ------------------------------------------------------ inbound messages
\* message.serverContent.modelTurn.parts[0].inlineData.data: absent, malformed
\* (atob or the Int16Array view throws), or PCM that decodes to `frames` ticks.
Payloads ==
  {[ok |-> FALSE, frames |-> 0]} \cup {[ok |-> TRUE, frames |-> d] : d \in 1..MaxFrames}

ToolNames == {"update_screen", "other_tool"}

CallLists ==
  UNION {[1..n -> ToolNames] : n \in 0..MaxCalls}

Messages ==
  [audio : {<<>>} \cup {<<p>> : p \in Payloads}, calls : CallLists]

\* if (fc.name === 'update_screen')
IsUpdateScreen(name) == name = "update_screen"

\* One functionCall of message.toolCall.functionCalls: the handler, then the response.
HandleCall(r, fc) ==
  IF IsUpdateScreen(fc.name)
  THEN ThenSend([r EXCEPT !.screen = Append(@, fc.id)],
                [kind |-> "toolResponse", id |-> fc.id, name |-> fc.name])
  ELSE r

RECURSIVE HandleCalls(_, _)
HandleCalls(r, fcs) ==
  IF fcs = <<>> THEN r ELSE HandleCalls(HandleCall(r, Head(fcs)), Tail(fcs))

\* The invocations of a message, with the ids the remote endpoint gave them.
Invocations(r, names) ==
  [i \in DOMAIN names |-> [id |-> Len(r.received) + i, name |-> names[i]]]

\* Mutant of Resync: the watermark is set to the clock instead of the maximum.
ResyncToNow(watermark, now) == now

\* Mutant of Resync: the watermark is never resynchronised.
ResyncNever(watermark, now) == watermark

\* this.nextStartTime = Math.max(this.nextStartTime, this.outputContext.currentTime)
Resync(watermark, now) == Max(watermark, now)

\* this.nextStartTime += audioBuffer.duration
Advance(watermark, duration) == watermark + duration

\* The audio payload handleMessage passes to playAudio, if any.
AudioOf(r, m) == IF m.audio # <<>> /\ r.outputContext # "null" THEN m.audio ELSE <<>>

\* playAudio up to its await.
PlayAudioBegin(r) == [r EXCEPT !.nextStartTime = Resync(@, r.clock)]

\* playAudio after its await: the decoded buffer is started at the watermark.
\* wm0 and now0 remember the watermark and the clock the call found.
PlayAudioSchedule(r, p) ==
  [r EXCEPT !.units = Append(@, [start |-> r.nextStartTime, dur |-> p.payload.frames,
                                 st |-> "playing", wm0 |-> p.wm0, now0 |-> p.now0]),
            !.nextStartTime = Advance(@, p.payload.frames),
            !.sources = @ \cup {Len(r.units) + 1}]

\* The message as the channel delivered it, before the handler looks at it.
Delivered(r, m) ==
  [r EXCEPT !.received = @ \o Invocations(r, m.calls), !.nmsg = @ + 1,
            !.naudio = IF m.audio # <<>> THEN @ + 1 ELSE @]

\* Mutant of HandleMessage: a message with an audio payload has its tool calls skipped.
HandleMessageExclusive(r, m) ==
  IF AudioOf(r, m) # <<>> THEN PlayAudioBegin(Delivered(r, m))
  ELSE HandleCalls(Delivered(r, m), Invocations(r, m.calls))

\* Mutant of PlayAudioCatch: the dropped chunk still advances the watermark.
PlayAudioCatchAdvance(r) == [r EXCEPT !.nextStartTime = Advance(@, MaxFrames)]

\* playAudio's catch block: the decode error is logged.
PlayAudioCatch(r) == r

\* handleMessage, up to the end of its synchronous part.
HandleMessage(r, m) ==
  LET a == IF AudioOf(r, m) # <<>> THEN PlayAudioBegin(r) ELSE r IN
  HandleCalls(Delivered(a, m), Invocations(r, m.calls))

\* Mutant of OnEnded: the listener leaves the source in the set.
OnEndedKeep(r, u) == [r EXCEPT !.units[u].st = "ended"]

\* The ended listener of a source.
OnEnded(r, u) ==
  [r EXCEPT !.units[u].st = "ended", !.sources = @ \ {u}]

\* onaudioprocess: one packet, handed to the session once the promise resolves.
OnAudioProcess(r) ==
  ThenSend([r EXCEPT !.npkt = @ + 1],
           [kind |-> "audio", id |-> r.npkt + 1, name |-> "pcm"])

\* ------------------------------------------------------------ PCM16 path
\* Int16Array holds 2 * Scale values; storing a number keeps its integer part
\* modulo that span.
Int16Span == 2 * Scale

\* A sample is the fraction n / SampleDen, so that n / Finer is the sample
\* times 32768.
SampleDen == Finer * Scale

\* The numerators tried: around -1, -1/2, 0, 1/2 and 1.
SampleNums ==
  {c + d : c \in {-SampleDen, -Scale, 0, Scale, SampleDen}, d \in -Spread..Spread}

Blocks == UNION {[1..n -> SampleNums] : n \in 1..MaxBlock}

\* The integer part of a / b (b > 0), toward zero.
Trunc(a, b) == IF a >= 0 THEN a \div b ELSE -((-a) \div b)

\* The signed 16-bit value of an unsigned one.
Signed(u) == IF u >= Scale THEN u - Int16Span ELSE u

\* What an Int16Array element holds after it was assigned the integer t.
ToInt16(t) == Signed(t % Int16Span)

\* int16[i] = data[i] * 32768
Quantize(n) == ToInt16(Trunc(n, Finer))

\* new Uint8Array(int16.buffer): two bytes per element, low byte first.
RECURSIVE BytesOf(_)
BytesOf(q) ==
  IF q = <<>> THEN <<>>
  ELSE LET u == Head(q) % Int16Span IN
       <<u % ByteSpan, u \div ByteSpan>> \o BytesOf(Tail(q))

\* encode: String.fromCharCode of every byte, then btoa. The text is the
\* sequence of its symbols' indices in the alphabet, Pad for '='.
RECURSIVE encode(_)
encode(b) ==
  CASE Len(b) = 0 -> <<>>
    [] Len(b) = 1 -> <<b[1] \div 4, (b[1] % 4) * 16, Pad, Pad>>
    [] Len(b) = 2 -> <<b[1] \div 4, (b[1] % 4) * 16 + b[2] \div 16, (b[2] % 16) * 4, Pad>>
    [] OTHER -> <<b[1] \div 4, (b[1] % 4) * 16 + b[2] \div 16,
                  (b[2] % 16) * 4 + b[3] \div 64, b[3] % 64>>
                \o encode(SubSeq(b, 4, Len(b)))

\* createBlob: quantize every sample, view the buffer as bytes, encode.
createBlob(data) == encode(BytesOf([i \in DOMAIN data |-> Quantize(data[i])]))

\* atob and charCodeAt: the bytes of a base64 text.
RECURSIVE atob(_)
atob(c) ==
  CASE Len(c) = 0 -> <<>>
    [] c[3] = Pad -> <<c[1] * 4 + c[2] \div 16>>
    [] c[4] = Pad -> <<c[1] * 4 + c[2] \div 16, (c[2] % 16) * 16 + c[3] \div 4>>
    [] OTHER -> <<c[1] * 4 + c[2] \div 16, (c[2] % 16) * 16 + c[3] \div 4,
                  (c[3] % 4) * 64 + c[4]>>
                \o atob(SubSeq(c, 5, Len(c)))

\* new Int16Array(bytes.buffer): one element per two bytes, low byte first.
RECURSIVE Int16Of(_)
Int16Of(b) ==
  IF b = <<>> THEN <<>>
  ELSE <<Signed(b[1] + ByteSpan * b[2])>> \o Int16Of(SubSeq(b, 3, Len(b)))

\* decodeAudioData: the channel data, each value the numerator of a fraction
\* over Scale (dataInt16[i] / 32768.0).
decodeAudioData(base64) == Int16Of(atob(base64))

NoBlock == [stage |-> "none", data |-> <<>>, blob |-> <<>>, out |-> <<>>]

\* A capture block reaches onaudioprocess.
PcmInit ==
  /\ sess = <<>> /\ isActive = FALSE /\ sessionRef = 0 /\ mounted = TRUE
  /\ micro = <<>>
  /\ load \in {w \in Workloads : w.name = "capture"}
  /\ \E d \in Blocks : pcm = [NoBlock EXCEPT !.stage = "captured", !.data = d]

\* The block is encoded into a packet.
PcmEncode ==
  /\ pcm.stage = "captured"
  /\ pcm' = [pcm EXCEPT !.stage = "encoded", !.blob = createBlob(pcm.data)]
  /\ UNCHANGED <<sess, isActive, sessionRef, mounted, micro, load>>

\* The packet's payload is decoded as an inbound chunk would be.
PcmDecode ==
  /\ pcm.stage = "encoded"
  /\ pcm' = [pcm EXCEPT !.stage = "decoded", !.out = decodeAudioData(pcm.blob)]
  /\ UNCHANGED <<sess, isActive, sessionRef, mounted, micro, load>>

PcmNext == PcmEncode \/ PcmDecode

PcmSpec == PcmInit /\ [][PcmNext]_vars

Init ==
  /\ sess = <<>>
  /\ isActive = FALSE
  /\ sessionRef = 0
  /\ mounted = TRUE
  /\ micro = <<>>
  /\ load \in Workloads
  /\ pcm = NoBlock

\* toggleSession while inactive: construct a session and call connect() on it.
ToggleOn ==
  /\ mounted /\ micro = <<>> /\ ~isActive
  /\ Len(sess) < load.sessions
  /\ sess' = Append(sess, ConnectBegin(NewSession))
  /\ isActive' = TRUE
  /\ sessionRef' = Len(sess) + 1
  /\ UNCHANGED <<mounted, micro, load, pcm>>

\* getUserMedia resolves: connect() runs to its end and toggleSession's await returns.
GumResolve(s) ==
  /\ micro = <<>> /\ sess[s].cpc = "gum"
  /\ sess' = [sess EXCEPT ![s] = ConnectAcquired(@)]
  /\ UNCHANGED <<isActive, sessionRef, mounted, micro, load, pcm>>

\* getUserMedia rejects: connect() throws and toggleSession's catch runs.
GumReject(s) ==
  /\ micro = <<>> /\ sess[s].cpc = "gum"
  /\ sess' = [sess EXCEPT ![s].cpc = "threw"]
  /\ isActive' = FALSE
  /\ UNCHANGED <<sessionRef, mounted, micro, load, pcm>>

\* toggleSession while active: disconnect the referenced session, then reset.
ToggleOff ==
  /\ mounted /\ micro = <<>> /\ isActive
  /\ IF sessionRef = 0
     THEN /\ isActive' = FALSE
          /\ UNCHANGED <<sess, sessionRef>>
     ELSE LET r == sess[sessionRef]
              out == DisconnectOutcome(r) IN
          /\ out = "suspends" => Waiting(r) < load.waiting
          /\ sess' = [sess EXCEPT ![sessionRef] = DisconnectCall(r, "toggle")]
          /\ IF out = "completes"
             THEN sessionRef' = 0 /\ isActive' = FALSE
             ELSE UNCHANGED <<sessionRef, isActive>>
  /\ UNCHANGED <<mounted, micro, load, pcm>>

\* The effect cleanup on unmount: disconnect the referenced session, not awaited.
Unmount ==
  /\ mounted /\ micro = <<>>
  /\ mounted' = FALSE
  /\ IF sessionRef = 0
     THEN UNCHANGED sess
     ELSE LET r == sess[sessionRef] IN
          /\ DisconnectOutcome(r) = "suspends" => Waiting(r) < load.waiting
          /\ sess' = [sess EXCEPT ![sessionRef] = DisconnectCall(r, "unmount")]
  /\ UNCHANGED <<isActive, sessionRef, micro, load, pcm>>

\* The channel's open event: the onopen callback runs.
ChanOpen(s) ==
  /\ micro = <<>> /\ sess[s].chan = "opening" /\ sess[s].session = "pending"
  /\ sess' = [sess EXCEPT ![s] = [OnOpen(@) EXCEPT !.chan = "open", !.opened = TRUE]]
  /\ UNCHANGED <<isActive, sessionRef, mounted, micro, load, pcm>>

\* live.connect's promise resolves with the session: the registered reactions
\* run, and every toggleSession suspended on a disconnect() continues.
SessionResolve(s, f) ==
  /\ micro = <<>> /\ sess[s].session = "pending" /\ sess[s].opened
  /\ LET r == TaskBegin(sess[s], f) IN
     /\ sess' = [sess EXCEPT ![s] =
                   TaskEnd(RunReactions([r EXCEPT !.session = "resolved",
                                                  !.reactions = <<>>],
                                        r.reactions))]
     /\ IF HasReaction(r, "disconnect", "toggle")
        THEN sessionRef' = 0 /\ isActive' = FALSE
        ELSE UNCHANGED <<sessionRef, isActive>>
  /\ UNCHANGED <<mounted, micro, load, pcm>>

\* live.connect's promise rejects: the channel could not be opened.
SessionReject(s) ==
  /\ micro = <<>> /\ sess[s].session = "pending" /\ ~sess[s].opened
  /\ sess' = [sess EXCEPT ![s] = RejectReactions(@)]
  /\ UNCHANGED <<isActive, sessionRef, mounted, micro, load, pcm>>

\* The channel's error event: the onerror callback runs.
ChanError(s) ==
  /\ micro = <<>> /\ sess[s].chan \in {"opening", "open"}
  /\ sess' = [sess EXCEPT ![s] = [OnError(@) EXCEPT !.chan = "errored"]]
  /\ UNCHANGED <<isActive, sessionRef, mounted, micro, load, pcm>>

\* The channel's close event: the onclose callback runs.
ChanClose(s) ==
  /\ micro = <<>> /\ sess[s].chan \in {"open", "errored"}
  /\ sess' = [sess EXCEPT ![s] = [OnClose(@) EXCEPT !.chan = "closed"]]
  /\ UNCHANGED <<isActive, sessionRef, mounted, micro, load, pcm>>

\* The channel's message event: the onmessage callback runs handleMessage.
ChanMessage(s, m, f) ==
  /\ micro = <<>> /\ sess[s].chan = "open"
  /\ MsgCount < load.msgs /\ Len(m.calls) <= load.calls
  /\ sess' = [sess EXCEPT ![s] = TaskEnd(HandleMessage(TaskBegin(@, f), m))]
  /\ micro' = IF AudioOf(sess[s], m) # <<>>
              THEN <<[s |-> s, payload |-> m.audio[1],
                      wm0 |-> sess[s].nextStartTime, now0 |-> sess[s].clock]>>
              ELSE <<>>
  /\ UNCHANGED <<isActive, sessionRef, mounted, load, pcm>>

\* The microtask after decodeAudioData: schedule the buffer, or catch the decode error.
PlayAudioResume ==
  /\ micro # <<>>
  /\ LET p == micro[1] IN
     sess' = [sess EXCEPT ![p.s] = IF p.payload.ok THEN PlayAudioSchedule(@, p)
                                      ELSE PlayAudioCatch(@)]
  /\ micro' = <<>>
  /\ UNCHANGED <<isActive, sessionRef, mounted, load, pcm>>

\* The rendering thread advances a running output context's clock.
Tick(s) ==
  /\ sess[s].outputContext = "running" /\ TickCount < load.ticks
  /\ sess' = [sess EXCEPT ![s].clock = @ + 1]
  /\ UNCHANGED <<isActive, sessionRef, mounted, micro, load, pcm>>

\* A unit played to its end on a running context: its ended event fires.
Ended(s, u) ==
  /\ micro = <<>> /\ sess[s].outputContext = "running"
  /\ sess[s].units[u].st = "playing"
  /\ sess[s].clock >= sess[s].units[u].start + sess[s].units[u].dur
  /\ sess' = [sess EXCEPT ![s] = OnEnded(@, u)]
  /\ UNCHANGED <<isActive, sessionRef, mounted, micro, load, pcm>>

\* The capture graph delivers a block: the onaudioprocess callback runs.
CaptureCallback(s, f) ==
  /\ micro = <<>> /\ PacketCount < load.pkts
  /\ sess[s].inputProcessor = "connected" /\ sess[s].inputContext = "running"
  /\ sess' = [sess EXCEPT ![s] = TaskEnd(OnAudioProcess(TaskBegin(@, f)))]
  /\ UNCHANGED <<isActive, sessionRef, mounted, micro, load, pcm>>

Next ==
  \/ ToggleOn
  \/ ToggleOff
  \/ Unmount
  \/ \E s \in Sessions : GumResolve(s)
  \/ \E s \in Sessions : GumReject(s)
  \/ \E s \in Sessions : ChanOpen(s)
  \/ \E s \in Sessions : \E f \in Faults : SessionResolve(s, f)
  \/ \E s \in Sessions : SessionReject(s)
  \/ \E s \in Sessions : ChanError(s)
  \/ \E s \in Sessions : ChanClose(s)
  \/ \E s \in Sessions : \E m \in Messages : \E f \in Faults : ChanMessage(s, m, f)
  \/ PlayAudioResume
  \/ \E s \in Sessions : Tick(s)
  \/ \E s \in Sessions : \E u \in DOMAIN sess[s].units : Ended(s, u)
  \/ \E s \in Sessions : \E f \in Faults : CaptureCallback(s, f)

Spec == Init /\ [][Next]_vars

\* The ended event of unit u of session s, where there is such a unit.
EndedOf(s, u) == s \in Sessions /\ u \in DOMAIN sess[s].units /\ Ended(s, u)

\* What the event loop and its environment owe the program: a microtask runs,
\* a pending getUserMedia and a pending channel open settle, the output device
\* fires the ended event of every unit played to its end on a running context,
\* and the user of an active controller eventually toggles it off.
Fairness ==
  /\ WF_vars(PlayAudioResume)
  /\ WF_vars(\E s \in Sessions : GumResolve(s) \/ GumReject(s))
  /\ WF_vars(\E s \in Sessions : \E f \in Faults : SessionResolve(s, f))
  /\ WF_vars(\E s \in Sessions : Tick(s))
  /\ WF_vars(ToggleOff)
  /\ \A s \in 1..MaxSessions : \A u \in 1..MaxMsgs : WF_vars(EndedOf(s, u))

LiveSpec == Spec /\ Fairness

\* ================================================================ properties
Range(q) == {q[i] : i \in DOMAIN q}

End(u) == u.start + u.dur

\* The scheduled intervals [start, start + dur) of a session are pairwise disjoint.
NoOverlap(r) ==
  \A i, j \in DOMAIN r.units : i < j => End(r.units[i]) <= r.units[j].start

\* A step that schedules a unit starts it at the watermark it finds and leaves
\* the watermark advanced by the unit's duration.
StartsAtWatermark ==
  \A s \in Sessions :
    Len(sess'[s].units) > Len(sess[s].units) =>
      LET u == sess'[s].units[Len(sess'[s].units)] IN
      /\ u.start = sess[s].nextStartTime
      /\ sess'[s].nextStartTime = sess[s].nextStartTime + u.dur

\* Gap zero as the claim states it: the watermark the chunk found was not behind the clock.
GapZeroWhenWatermarkAhead(r) ==
  \A k \in 2..Len(r.units) :
    r.units[k].wm0 >= r.units[k].now0 => r.units[k].start = End(r.units[k - 1])

\* Gap zero, amended: the previous unit's end was not behind the clock.
GapZeroWhenPreviousEndAhead(r) ==
  \A k \in 2..Len(r.units) :
    r.units[k].now0 <= End(r.units[k - 1]) => r.units[k].start = End(r.units[k - 1])

Responses(r, id) ==
  {i \in DOMAIN r.outbox : r.outbox[i].kind = "toolResponse" /\ r.outbox[i].id = id}

Registered(r, id) ==
  {i \in DOMAIN r.reactions :
     /\ r.reactions[i].kind = "send"
     /\ r.reactions[i].item.kind = "toolResponse"
     /\ r.reactions[i].item.id = id}

\* C2: every tool invocation received is answered exactly once, with its own id and
\* name, whatever its tool name, and no response carries an id that was not received.
C2_EveryInvocationAnswered ==
  \A s \in Sessions :
    LET r == sess[s] IN
    /\ \A i \in DOMAIN r.received :
         /\ Cardinality(Responses(r, r.received[i].id))
              + Cardinality(Registered(r, r.received[i].id)) = 1
         /\ \A k \in Responses(r, r.received[i].id) :
              r.outbox[k].name = r.received[i].name
    /\ \A k \in DOMAIN r.outbox :
         r.outbox[k].kind = "toolResponse" =>
           \E i \in DOMAIN r.received : r.received[i].id = r.outbox[k].id

\* C3: a disconnect() that runs to its end has stopped every unit that was in the
\* active set and leaves the active set empty.
C3_DisconnectStopsAll ==
  [][\A s \in Sessions :
       sess'[s].ndisc > sess[s].ndisc =>
         /\ sess'[s].sources = {}
         /\ \A u \in sess[s].sources : sess'[s].units[u].st = "stopped"]_vars

\* A connected session was disconnected with two units in its active set.
C3_Witness ==
  \E s \in Sessions :
    /\ sess[s].ndisc >= 1
    /\ "Connected" \in Range(sess[s].reports)
    /\ Cardinality({u \in DOMAIN sess[s].units : sess[s].units[u].st = "stopped"}) >= 2
    /\ sess[s].sources = {}

\* C4: no disconnect() call ends in an error: every call runs its teardown steps
\* and returns normally, also when the stored session promise was rejected.
C4_DisconnectNeverThrows ==
  \A s \in Sessions : ~sess[s].dthrew

\* C5: disconnect() does not wait on the channel open: no disconnect() call is
\* suspended on a session promise that is still pending (and may never settle).
C5_DisconnectDoesNotWait ==
  \A s \in Sessions : sess[s].session = "pending" => Waiting(sess[s]) = 0

\* C6: once disconnect() has run while connect() was in flight, the session does
\* not open the channel, report 'Connected', start capture or hold the stream.
C6_DisconnectCancelsConnect ==
  \A s \in Sessions :
    LET r == sess[s] IN
    /\ r.cancelled = "acquiring" => r.chan = "none" /\ r.stream # "live"
    /\ r.cancelled = "opening" => r.session = "pending" \/ r.stream # "live"
    /\ r.cancelled # "no" =>
         "Connected" \notin Range(r.reports) /\ r.inputProcessor = "null"

\* A session holds a resource: a live input stream, a running context, an active unit.
Holds(r) ==
  \/ r.stream = "live"
  \/ r.inputContext = "running"
  \/ r.outputContext = "running"
  \/ r.sources # {}

\* C7: at most one session holds resources at any time.
C7_OneSessionHoldsResources ==
  Cardinality({s \in Sessions : Holds(sess[s])}) <= 1

Terminal == {"Disconnected", "Error"}

\* C8: once a session has reported 'Disconnected' or 'Error', it never reports
\* any other status.
C8_TerminalIsFinal ==
  \A s \in Sessions :
    \A i, j \in DOMAIN sess[s].reports :
      (i < j /\ sess[s].reports[i] \in Terminal) =>
        sess[s].reports[j] = sess[s].reports[i]

\* The watermark never decreases.
WatermarkMonotone ==
  \A s \in Sessions : sess'[s].nextStartTime >= sess[s].nextStartTime

\* C9 as claimed: the watermark never decreases and is >= the output clock in
\* every state, also before the first chunk and between chunks.
C9_AsClaimed ==
  /\ [](\A s \in Sessions : sess[s].nextStartTime >= sess[s].clock)
  /\ [][WatermarkMonotone]_vars

\* C9 amended: the watermark never decreases, and each time playAudio handles a
\* chunk it leaves the watermark >= the clock value it read, so that every unit
\* starts no earlier than that reading; between chunks the watermark may fall
\* behind the clock.
C9_WatermarkResynced ==
  /\ [](/\ micro # <<>> => sess[micro[1].s].nextStartTime >= micro[1].now0
        /\ \A s \in Sessions : \A u \in DOMAIN sess[s].units :
             sess[s].units[u].start >= sess[s].units[u].now0)
  /\ [][WatermarkMonotone]_vars

\* A chunk was handled after the clock had passed the watermark, and was scheduled.
C9_Witness ==
  \E s \in Sessions : \E u \in DOMAIN sess[s].units :
    sess[s].units[u].now0 > sess[s].units[u].wm0

\* C10: 'Connected' is reported and the capture callback installed only after the
\* channel's open event, and a session that reported 'Connected' has started capture.
C10_ConnectedAfterOpen ==
  \A s \in Sessions :
    LET r == sess[s] IN
    /\ "Connected" \in Range(r.reports) => r.opened
    /\ r.inputProcessor # "null" => r.opened
    /\ "Connected" \in Range(r.reports) => r.inputProcessor # "null"

\* The open event fired: the session reported 'Connected' and capture is running.
C10_Witness ==
  \E s \in Sessions :
    /\ sess[s].opened
    /\ "Connected" \in Range(sess[s].reports)
    /\ sess[s].inputProcessor = "connected"

IsAudio(x) == x.kind = "audio"

IsAudioSend(x) == x.kind = "send" /\ x.item.kind = "audio"

\* The ids of the audio packets handed to the channel, in the order of the calls.
AudioSent(r) ==
  LET q == SelectSeq(r.outbox, IsAudio) IN [i \in DOMAIN q |-> q[i].id]

\* The ids of the audio packets whose send waits for the session promise.
AudioDeferred(r) ==
  LET q == SelectSeq(r.reactions, IsAudioSend) IN [i \in DOMAIN q |-> q[i].item.id]

\* C11: an audio send issued while the session promise is pending is deferred: it
\* is never handed to the channel before the channel's open event and the
\* promise's resolution, it is held (once) while the promise is pending, and once
\* the promise has resolved it has been handed to the channel exactly once and
\* none is held.
C11_DeferredSendOnceAfterOpen ==
  \A s \in Sessions :
    LET r == sess[s] IN
    /\ AudioSent(r) # <<>> => r.session = "resolved" /\ r.opened
    /\ AudioDeferred(r) # <<>> => r.session = "pending"
    /\ \A id \in 1..r.npkt :
         Cardinality({i \in DOMAIN AudioSent(r) : AudioSent(r)[i] = id})
           + Cardinality({i \in DOMAIN AudioDeferred(r) : AudioDeferred(r)[i] = id}) = 1
    /\ r.ndeferred <= Len(r.outbox)

\* A packet captured while the promise was pending was transmitted when it resolved.
C11_Witness ==
  \E s \in Sessions :
    /\ sess[s].ndeferred >= 1
    /\ sess[s].session = "resolved"
    /\ AudioSent(sess[s]) # <<>>
    /\ AudioDeferred(sess[s]) = <<>>

\* C12: every capture callback produces exactly one packet, and the packets are
\* handed to the channel in capture order, none dropped, duplicated or reordered:
\* the packets transmitted, followed by those still deferred, are 1, 2, ..., npkt.
C12_PacketsInCaptureOrder ==
  \A s \in Sessions :
    AudioSent(sess[s]) \o AudioDeferred(sess[s]) = [i \in 1..sess[s].npkt |-> i]

\* Two packets were deferred and then transmitted.
C12_Witness ==
  \E s \in Sessions :
    /\ sess[s].ndeferred >= 2
    /\ Len(AudioSent(sess[s])) >= 2

\* C13: the step in which the channel closes reports 'Disconnected', and once the
\* channel has closed no step schedules a playback unit or adds one to the
\* active set.
C13_NothingScheduledAfterClose ==
  [][\A s \in Sessions :
       /\ (sess[s].chan # "closed" /\ sess'[s].chan = "closed") =>
            sess'[s].reports = Append(sess[s].reports, "Disconnected")
       /\ sess[s].chan = "closed" =>
            /\ Len(sess'[s].units) = Len(sess[s].units)
            /\ sess'[s].sources \subseteq sess[s].sources]_vars

\* The channel closed while three units were scheduled and not yet ended.
C13_Witness ==
  \E s \in Sessions :
    /\ sess[s].chan = "closed"
    /\ sess[s].reports[Len(sess[s].reports)] = "Disconnected"
    /\ Cardinality(sess[s].sources) >= 3
    /\ \A u \in sess[s].sources : sess[s].units[u].st = "playing"

\* C14: after the channel's error event the capture pipeline is stopped without
\* any call by the controller: no later step generates an audio packet or hands
\* one to the channel.
C14_ErrorStopsCapture ==
  [][\A s \in Sessions :
       sess[s].chan = "errored" =>
         /\ sess'[s].npkt = sess[s].npkt
         /\ AudioSent(sess'[s]) = AudioSent(sess[s])]_vars

\* C15: a connect() that failed (getUserMedia rejected, or the channel could not
\* be opened) has reported 'Error' through the status callback, has not reported
\* 'Connected' and has not started capture.
C15_ConnectFailureReportsError ==
  \A s \in Sessions :
    LET r == sess[s] IN
    (r.cpc = "threw" \/ r.session = "rejected") =>
      /\ "Error" \in Range(r.reports)
      /\ "Connected" \notin Range(r.reports)
      /\ r.inputProcessor = "null"

Count(q, x) == Cardinality({i \in DOMAIN q : q[i] = x})

\* C16: a disconnect() call that finds nothing to tear down emits no status
\* callback: while the channel has not closed by itself, a session reports
\* 'Disconnected' at most once, however often disconnect() is called on it.
C16_DisconnectIdempotent ==
  \A s \in Sessions :
    sess[s].chan # "closed" => Count(sess[s].reports, "Disconnected") <= 1

\* C17: once disconnect() has completed on a session, its channel is closed: no
\* later step processes an inbound message (no handler invocation, no tool
\* response, no registration of one).
C17_NoMessageAfterDisconnect ==
  [][\A s \in Sessions :
       sess[s].ndisc >= 1 =>
         /\ sess'[s].nmsg = sess[s].nmsg
         /\ sess'[s].screen = sess[s].screen
         /\ sess'[s].outbox = sess[s].outbox]_vars

\* The invocations the step delivered to session s.
NewCalls(s) == SubSeq(sess'[s].received, Len(sess[s].received) + 1, Len(sess'[s].received))

\* What the tool loop writes.
ToolPart(r) == <<r.screen, r.outbox, r.reactions>>

\* The step hands a tool response to the channel or registers one on the promise.
Responds(s) ==
  Len(sess'[s].outbox) + Len(sess'[s].reactions) > Len(sess[s].outbox) + Len(sess[s].reactions)

\* C18 as claimed: a unit is scheduled for every message that carries an audio
\* payload and for no other, and a message step issues tool responses iff the
\* message carries tool invocations.
C18_AsClaimed ==
  /\ [](\A s \in Sessions : micro = <<>> => Len(sess[s].units) = sess[s].naudio)
  /\ [][\A s \in Sessions :
          sess'[s].nmsg > sess[s].nmsg => (NewCalls(s) # <<>> <=> Responds(s))]_vars

\* C18 amended: the two categories of one message are handled independently.
\* playAudio is started iff the message carries an audio payload, whatever its
\* tool invocations, and schedules a unit iff the payload decodes; the tool loop
\* does to the invocations exactly what it does to them in a message without
\* audio, whatever the audio payload.
C18_AudioAndToolsIndependent ==
  [][\A s \in Sessions :
       /\ sess'[s].nmsg > sess[s].nmsg =>
            /\ sess'[s].naudio > sess[s].naudio <=> micro' # <<>>
            /\ sess'[s].nextStartTime =
                 IF sess'[s].naudio > sess[s].naudio
                 THEN Resync(sess[s].nextStartTime, sess[s].clock)
                 ELSE sess[s].nextStartTime
            /\ \E f \in BOOLEAN :
                 ToolPart(sess'[s]) = ToolPart(HandleCalls(TaskBegin(sess[s], f), NewCalls(s)))
       /\ (micro # <<>> /\ micro' = <<>> /\ micro[1].s = s) =>
            (Len(sess'[s].units) > Len(sess[s].units) <=> micro[1].payload.ok)]_vars

\* One message carried both: its audio is being decoded and its invocation was answered.
C18_Witness ==
  \E s \in Sessions :
    /\ sess[s].nmsg = 1 /\ sess[s].naudio = 1
    /\ micro # <<>> /\ micro[1].payload.ok
    /\ sess[s].screen # <<>>
    /\ Len(sess[s].outbox) + Len(sess[s].reactions) >= 1

\* C19 as claimed: once a connect() call has settled, the session has made as
\* many channel-open attempts as connect() calls, and as many device acquisitions.
C19_AsClaimed ==
  \A s \in Sessions :
    LET r == sess[s] IN
    /\ r.ngum = r.nconnect
    /\ r.cpc \in {"returned", "threw"} => r.nopen = r.nconnect

\* C19 amended: the session never retries. It acquires the device once per
\* connect() call and opens the channel once per connect() call whose device
\* acquisition succeeded (not at all for one whose acquisition failed), also
\* after a channel error, a close or a failed open.
C19_NoAutomaticRetry ==
  \A s \in Sessions :
    LET r == sess[s] IN
    /\ r.ngum = r.nconnect
    /\ r.nopen = IF r.cpc = "returned" THEN r.nconnect ELSE 0

\* The channel reported an error and closed, and capture went on after it:
\* the session still has opened the channel once.
C19_Witness ==
  \E s \in Sessions :
    /\ "Error" \in Range(sess[s].reports)
    /\ sess[s].chan = "closed"
    /\ sess[s].npkt >= 1
    /\ sess[s].nopen = 1

\* The step made a send call on session s that threw.
SendFailed(s) ==
  \E i \in DOMAIN sess'[s].outbox : i > Len(sess[s].outbox) /\ sess'[s].outbox[i].threw

\* The lifecycle of a session: connect()'s progress, the channel, the capture
\* graph, the device, the contexts, the reports.
Lifecycle(r) ==
  <<r.cpc, r.chan, r.opened, r.source, r.inputProcessor, r.stream,
    r.inputContext, r.outputContext, r.reports>>

\* C20: a send call that throws is dropped and disturbs nothing. No item is ever
\* handed to the channel twice; and a step in which a send throws (and in which
\* no suspended disconnect() resumes) leaves the lifecycle, the scheduled units
\* and the active set as they were, and the watermark where the step's own
\* audio payload, if any, puts it.
C20_FailedSendIsDropped ==
  /\ [](\A s \in Sessions : \A i, j \in DOMAIN sess[s].outbox :
          (sess[s].outbox[i].kind = sess[s].outbox[j].kind
             /\ sess[s].outbox[i].id = sess[s].outbox[j].id) => i = j)
  /\ [][\A s \in Sessions :
          (SendFailed(s) /\ sess'[s].ndisc = sess[s].ndisc) =>
            /\ Lifecycle(sess'[s]) = Lifecycle(sess[s])
            /\ sess'[s].units = sess[s].units
            /\ sess'[s].sources = sess[s].sources
            /\ sess'[s].nextStartTime =
                 IF sess'[s].naudio > sess[s].naudio
                 THEN Resync(sess[s].nextStartTime, sess[s].clock)
                 ELSE sess[s].nextStartTime]_vars

\* A send threw, and a later packet was captured and handed to the channel.
C20_Witness ==
  \E s \in Sessions : \E i, j \in DOMAIN sess[s].outbox :
    /\ i < j
    /\ sess[s].outbox[i].threw
    /\ ~sess[s].outbox[j].threw
    /\ sess[s].inputProcessor = "connected"

\* C21: a chunk that fails to decode is dropped: the step that catches the
\* failure schedules nothing and leaves the active set and the watermark as they
\* are (handling the chunk only resynchronised the watermark to the clock, no
\* duration was added); and every well-formed chunk, also one after a failure, is
\* scheduled at the watermark, without overlap, and with no gap whenever the
\* previous unit's end is not behind the clock.
C21_DecodeFailureConfined ==
  /\ [][\A s \in Sessions :
          /\ (micro # <<>> /\ micro' = <<>> /\ micro[1].s = s) =>
               IF micro[1].payload.ok
               THEN /\ Len(sess'[s].units) = Len(sess[s].units) + 1
                    /\ sess'[s].units[Len(sess'[s].units)].start = sess[s].nextStartTime
                    /\ sess'[s].units[Len(sess'[s].units)].start >= micro[1].now0
               ELSE /\ sess'[s].units = sess[s].units
                    /\ sess'[s].sources = sess[s].sources
                    /\ sess'[s].nextStartTime = sess[s].nextStartTime
          /\ (micro = <<>> /\ micro' # <<>> /\ micro'[1].s = s) =>
               sess'[s].nextStartTime = Max(sess[s].nextStartTime, sess[s].clock)]_vars
  /\ [](\A s \in Sessions :
          \A k \in 2..Len(sess[s].units) :
            LET a == sess[s].units[k - 1]
                b == sess[s].units[k] IN
            b.start = Max(End(a), b.now0))

\* A chunk that failed to decode was dropped between two scheduled units: the
\* second found the watermark resynchronised beyond the first one's end.
C21_Witness ==
  \E s \in Sessions :
    /\ micro = <<>>
    /\ Len(sess[s].units) = 2
    /\ sess[s].naudio = 3
    /\ sess[s].units[2].wm0 > End(sess[s].units[1])

Abs(x) == IF x >= 0 THEN x ELSE -x

\* C22: every sample in [-1, 1], both ends included, comes back from createBlob
\* followed by decodeAudioData within one quantization step:
\* |n / SampleDen - out / Scale| <= 1 / Scale, that is |n - out * Finer| <= Finer.
C22_RoundTripWithinOneStep ==
  pcm.stage = "decoded" =>
    /\ Len(pcm.out) = Len(pcm.data)
    /\ \A i \in DOMAIN pcm.data :
         Abs(pcm.data[i]) <= SampleDen =>
           Abs(pcm.data[i] - pcm.out[i] * Finer) <= Finer

\* The int16 values a packet carries.
Stored == Int16Of(atob(pcm.blob))

\* C23: the encoder stores for every sample an int16 value nearest to
\* s * 32768 within the int16 range, and never a value of the opposite sign for
\* a sample at or beyond +1 or -1.
C23_QuantizeClamps ==
  pcm.stage = "encoded" =>
    \A i \in DOMAIN pcm.data :
      LET n == pcm.data[i]
          q == Stored[i] IN
      /\ n > 0 => q >= 0
      /\ n < 0 => q <= 0
      /\ n >= SampleDen => q = Scale - 1
      /\ n <= -SampleDen => q = -Scale
      /\ Abs(n) < SampleDen => 2 * Abs(q * Finer - n) <= Finer

\* C24: once the capture graph is disconnected no step captures a frame, and no
\* audio packet is handed to the channel after a disconnect() call has completed.
C24_NoFramesAfterDisconnect ==
  /\ [][\A s \in Sessions :
          sess[s].inputProcessor = "disconnected" => sess'[s].npkt = sess[s].npkt]_vars
  /\ [](\A s \in Sessions : \A i \in DOMAIN sess[s].outbox :
          sess[s].outbox[i].kind = "audio" => sess[s].outbox[i].ndisc = 0)

\* The place of a release step in the mandated order.
Rank(name) ==
  CASE name = "graph" -> 1
    [] name = "units" -> 2
    [] name = "tracks" -> 3
    [] name = "contexts" -> 4

\* C25: disconnect() releases in the mandated order: the capture graph, then the
\* units of the active set, then the device tracks, then the two contexts; no
\* unit is stopped after the output context was closed.
C25_TeardownOrder ==
  \A s \in Sessions :
    \A i, j \in DOMAIN sess[s].steps :
      i < j => Rank(sess[s].steps[i]) < Rank(sess[s].steps[j])

\* C26: no unit is scheduled into the past: the step that calls source.start()
\* passes a start time that is not behind the output clock as it is then.
C26_NeverScheduledIntoPast ==
  [][\A s \in Sessions :
       Len(sess'[s].units) > Len(sess[s].units) =>
         sess'[s].units[Len(sess'[s].units)].start >= sess[s].clock]_vars

\* C27: for every tool invocation received the handler onScreenUpdate has been
\* invoked exactly once, and a response is handed to the channel, or registered
\* on the promise, only for an invocation whose handler was invoked.
C27_HandlerOncePerInvocation ==
  \A s \in Sessions :
    LET r == sess[s] IN
    /\ \A i \in DOMAIN r.received : Count(r.screen, r.received[i].id) = 1
    /\ \A k \in DOMAIN r.outbox :
         r.outbox[k].kind = "toolResponse" => Count(r.screen, r.outbox[k].id) = 1
    /\ \A k \in DOMAIN r.reactions :
         (r.reactions[k].kind = "send" /\ r.reactions[k].item.kind = "toolResponse")
           => Count(r.screen, r.reactions[k].item.id) = 1

\* C28: the active set holds exactly the units that were started and have neither
\* ended nor been stopped by a teardown: a unit is in the set from the step that
\* schedules it, and never after its ended listener ran.
C28_ActiveSetIsPlayingUnits ==
  /\ [](\A s \in Sessions :
          sess[s].sources = {u \in DOMAIN sess[s].units : sess[s].units[u].st = "playing"})
  /\ [][\A s \in Sessions :
          /\ Len(sess'[s].units) > Len(sess[s].units) =>
               Len(sess'[s].units) \in sess'[s].sources
          /\ \A u \in DOMAIN sess[s].units :
               sess[s].units[u].st = "ended" => u \notin sess'[s].sources]_vars

\* One unit has ended and left the set while a later one is still in it.
C28_Witness ==
  \E s \in Sessions :
    /\ Len(sess[s].units) >= 2
    /\ sess[s].units[1].st = "ended" /\ 1 \notin sess[s].sources
    /\ sess[s].units[2].st = "playing" /\ 2 \in sess[s].sources

\* C29: once a disconnect() call has completed on a session, its active set is
\* empty and stays empty.
C29_EmptyAfterDisconnect ==
  \A s \in Sessions : sess[s].ndisc >= 1 => sess[s].sources = {}

\* Unit u of session s is in the active set.
InActiveSet(s, u) == s \in Sessions /\ u \in sess[s].sources

\* C30: every unit that is in the active set is eventually out of it.
C30_UnitsEventuallyRemoved ==
  \A s \in 1..MaxSessions : \A u \in 1..MaxMsgs :
    InActiveSet(s, u) ~> ~InActiveSet(s, u)
====
